---- MODULE Spec2Model ----
(***************************************************************************)
(* A model of colorguard.ColorGuard (src/colorguard/colorguard.py): one    *)
(* analysis instance, its attributes and its public operations.            *)
(*                                                                         *)
(* The collaborators (tracer.Runner, tracer.Tracer, the solver, Harvester, *)
(* ColorguardExploit.test_binary) are outside the class: whatever they     *)
(* return is drawn from small sets by the action that calls the operation. *)
(* Every Python object is a record with a "type" field, so that None can   *)
(* be compared with any of them.                                           *)
(***************************************************************************)
EXTENDS Integers, Sequences, FiniteSets, TLC

VARIABLES
    leak_ast,                  \* self.leak_ast
    _leak_path,                \* self._leak_path
    _no_concrete_difference,   \* self._no_concrete_difference
    _tracer,                   \* self._tracer
    next_id,                   \* identity of the next object the collaborators create
    n_retries,                 \* calls of _prep_challenge_response since construction
    nops,                      \* top-level calls made on the instance
    op,                        \* the last top-level call
    ret,                       \* what the last top-level call returned or raised
    log,                       \* the collaborator calls made by the last top-level call
    trial1, trial2,            \* the two concrete runs of a byte-level detector call
    other,                     \* a second ColorGuard object of the process, None while there is none
    seen,                      \* the first causes_leak call made on each object while it was new
    pc,                        \* where a call of attempt_pov in progress stands, "idle" between calls
    frames                     \* the enabled_chall_resp of each attempt_pov frame on the stack

vars == <<leak_ast, _leak_path, _no_concrete_difference, _tracer, next_id,
          n_retries, nops, op, ret, log, trial1, trial2, other, seen, pc, frames>>

-----------------------------------------------------------------------------
(* Bounds of the model.                                                    *)

\* top-level calls made on one instance
MaxOps == 4
\* longest stdout of a concrete run in the byte-level specification
MaxOut == 5

(* Numbers of the program.                                                 *)

\* s1[i:i+4], len(pchunk) == 4
ChunkLen == 4
\* len(x) >= 4
MinGroup == 4
\* test_binary(times=10, ...)
Times == 10

-----------------------------------------------------------------------------
(* Values.                                                                 *)

None == [type |-> "None"]
Bool(b) == [type |-> "bool", val |-> b]
AssertionError(msg) == [type |-> "AssertionError", msg |-> msg]

\* the byte values of the model
Bytes == {0, 1}
BytesUpTo(n) == UNION {[1..k -> Bytes] : k \in 0..n}

\* a name is the sequence of its characters
CGC_FLAG == <<"c", "g", "c", "-", "f", "l", "a", "g">>
\* var.startswith(prefix)
StartsWith(var, prefix) ==
    /\ Len(var) >= Len(prefix)
    /\ SubSeq(var, 1, Len(prefix)) = prefix

\* names of symbolic variables: a flag page byte, a stdin byte, and a name
\* that holds the prefix without starting with it
FlagVar == CGC_FLAG \o <<"-", "b", "y", "t", "e", "-", "0">>
StdinVar == <<"f", "i", "l", "e", "_", "s", "t", "d", "i", "n">>
DecoyVar == <<"x", "-">> \o CGC_FLAG
VarNames == {FlagVar, StdinVar, DecoyVar}

\* what one concrete run gives: r1.stdout, r1.magic. The session operations
\* only compare the stdout of two runs, so two outputs are enough for them.
SessionRuns == {[stdout |-> s, magic |-> <<0, 1, 1, 0>>] : s \in {<<>>, <<1>>}}
NoRun == [stdout |-> <<>>, magic |-> <<>>]

\* the secret regions of the byte-level runs: empty, shorter than a chunk,
\* and two of five bytes
Magics == {<<>>, <<0, 1, 1>>, <<0, 0, 0, 0, 1>>, <<0, 1, 0, 1, 0>>}
\* an output of twelve bytes with the same chunk at offsets 1 and 8
LongOutputs == {<<1, 0, 0, 0, 0, 1, 1, 1, 0, 0, 0, 0>>}
\* what one concrete run gives to the byte-level detectors
ProbeRuns ==
    {[stdout |-> s, magic |-> m] : s \in BytesUpTo(MaxOut) \cup LongOutputs, m \in Magics}

\* path constraints: cache_key and variables
ConFlag == [cache_key |-> 1, variables |-> {FlagVar}]
ConMixed == [cache_key |-> 2, variables |-> {FlagVar, StdinVar}]
ConGround == [cache_key |-> 3, variables |-> {}]
ConStdin == [cache_key |-> 4, variables |-> {StdinVar}]

\* what one symbolic trace gives: the variables of the stdout expression,
\* the path constraints, and the constraints the zen plugin recorded
TraceResults ==
    {[variables |-> v, constraints |-> c.cons, zen_constraints |-> c.zen] :
        v \in {{}, {DecoyVar}, {FlagVar}, {StdinVar, FlagVar}},
        c \in {[cons |-> <<ConFlag, ConMixed, ConGround>>, zen |-> {}],
               [cons |-> <<ConStdin, ConFlag>>, zen |-> {ConFlag}]}}

\* what the Harvester gives: the bit width of its minimized_ast
HarvestResults == {8, 32}

\* what exploit.test_binary(times=10, enable_randomness=True) gives: no trial
\* passes, every trial passes, only the first passes, or only the last passes
TestResults ==
    {[i \in 1..Times |-> FALSE], [i \in 1..Times |-> TRUE],
     [i \in 1..Times |-> i = 1], [i \in 1..Times |-> i = Times]}

-----------------------------------------------------------------------------
(* The instance as one record, and the collaborator calls it logs.         *)

Self ==
    [leak_ast |-> leak_ast, _leak_path |-> _leak_path,
     _no_concrete_difference |-> _no_concrete_difference, _tracer |-> _tracer,
     next_id |-> next_id, n_retries |-> n_retries, log |-> <<>>]

Logged(self, event) == [self EXCEPT !.log = Append(@, event)]

\* tracer.Tracer(binary, payload, ...) followed by <plugin>.prep_tracer
NewTracer(id, plugin, preconstrain) ==
    [type |-> "Tracer", id |-> id, plugin |-> plugin, preconstrain_input |-> preconstrain]

\* __init__: the attributes of a constructed instance
Constructed ==
    /\ _leak_path = None
    /\ _tracer = NewTracer(0, "ZenPlugin", "False")
    /\ _no_concrete_difference = FALSE
    /\ leak_ast = None
    /\ next_id = 1
    /\ n_retries = 0

-----------------------------------------------------------------------------
(* Concrete probes.                                                        *)

\* _concrete_leak_info(seed=None): one Runner with a random seed
_concrete_leak_info(self, run) ==
    [self |-> Logged(self, [ev |-> "Runner", seeded |-> FALSE, stdout |-> run.stdout]),
     ret |-> <<run.stdout, run.magic>>]

\* _concrete_difference returning the flag it has just set
_concrete_difference_returns_flag(self, run1, run2) ==
    LET a == _concrete_leak_info(self, run1)
        b == _concrete_leak_info(a.self, run2)
        after == [b.self EXCEPT !._no_concrete_difference = (a.ret[1] = b.ret[1])]
    IN  [self |-> after, ret |-> after._no_concrete_difference]

_concrete_difference(self, run1, run2) ==
    LET a == _concrete_leak_info(self, run1)
        b == _concrete_leak_info(a.self, run2)
        s1 == a.ret[1]
        s2 == b.ret[1]
        after == [b.self EXCEPT !._no_concrete_difference = (s1 = s2)]
    IN  [self |-> after, ret |-> ~after._no_concrete_difference]

causes_dumb_leak(self, run1, run2) == _concrete_difference(self, run1, run2)

causes_naive_leak(self, run1, run2) == causes_dumb_leak(self, run1, run2)

-----------------------------------------------------------------------------
(* Byte-level detectors. Offsets count from 0, as in the code.             *)

\* s[i:j] of a string
Slice(s, i, j) == SubSeq(s, i + 1, IF j <= Len(s) THEN j ELSE Len(s))
\* chunk in m, for a chunk that is not empty
Contains(m, chunk) ==
    \E j \in 0..(Len(m) - Len(chunk)) : Slice(m, j, j + Len(chunk)) = chunk
\* range(a, b)
Range(a, b) == [k \in 1..(IF b > a THEN b - a ELSE 0) |-> a + k - 1]
\* set(l) of a list
SetOf(l) == {l[k] : k \in DOMAIN l}

\* _find_dumb_leaks without the test len(pchunk) == 4
_find_dumb_leaks_short_chunks(self, run) ==
    LET c == _concrete_leak_info(self, run)
        s1 == c.ret[1]
        m1 == c.ret[2]
        Leaks(i) == Contains(m1, Slice(s1, i, i + ChunkLen))
        potential_leaks == SelectSeq(Range(0, Len(s1)), Leaks)
    IN  [self |-> c.self, ret |-> <<potential_leaks, s1>>]

_find_dumb_leaks(self, run) ==
    LET c == _concrete_leak_info(self, run)
        s1 == c.ret[1]
        m1 == c.ret[2]
        Leaks(i) ==
            LET pchunk == Slice(s1, i, i + ChunkLen)
            IN  Len(pchunk) = ChunkLen /\ Contains(m1, pchunk)
        potential_leaks == SelectSeq(Range(0, Len(s1)), Leaks)
    IN  [self |-> c.self, ret |-> <<potential_leaks, s1>>]

\* The values list(S)[0] can take for a set S of offsets. The language leaves
\* the order of a set open. CPython keeps a set of at most five small
\* integers in a table of eight slots, x in slot x % 8 when the slot is free,
\* and lists the table by slot: the first element is then the one in the
\* lowest slot. When two elements meet in a slot, or the table has grown,
\* the order depends on the insertions, and any element may come first.
ListHeads(S) ==
    IF Cardinality(S) <= 5 /\ \A x \in S, y \in S : x # y => x % 8 # y % 8
    THEN {x \in S : \A y \in S : x % 8 <= y % 8}
    ELSE S

\* attempt_dumb_pov with range(leaks[0], 4) for the leaked bytes
attempt_dumb_pov_short_range(self, run1, run2, head) ==
    LET f1 == _find_dumb_leaks(self, run1)
        f2 == _find_dumb_leaks(f1.self, run2)
        leaks == SetOf(f1.ret[1]) \cap SetOf(f2.ret[1])
    IN  IF leaks # {}
        THEN [self |-> f2.self,
              ret |-> [type |-> "ColorguardNaiveExploit", stdout_len |-> Len(f1.ret[2]),
                       leaked_bytes |-> Range(head, ChunkLen)]]
        ELSE [self |-> f2.self, ret |-> None]

\* attempt_dumb_pov taking the offsets of the first trial alone
attempt_dumb_pov_first_trial(self, run1, run2, head) ==
    LET f1 == _find_dumb_leaks(self, run1)
        f2 == _find_dumb_leaks(f1.self, run2)
        leaks == SetOf(f1.ret[1])
    IN  IF leaks # {}
        THEN [self |-> f2.self,
              ret |-> [type |-> "ColorguardNaiveExploit", stdout_len |-> Len(f1.ret[2]),
                       leaked_bytes |-> LET o == CHOOSE x \in leaks : \A y \in leaks : x <= y
                                        IN  Range(o, o + ChunkLen)]]
        ELSE [self |-> f2.self, ret |-> None]

\* attempt_dumb_pov reading leaks[0] without the test of leaks
attempt_dumb_pov_unguarded(self, run1, run2, head) ==
    LET f1 == _find_dumb_leaks(self, run1)
        f2 == _find_dumb_leaks(f1.self, run2)
        leaks == SetOf(f1.ret[1]) \cap SetOf(f2.ret[1])
    IN  IF leaks # {}
        THEN [self |-> f2.self,
              ret |-> [type |-> "ColorguardNaiveExploit", stdout_len |-> Len(f1.ret[2]),
                       leaked_bytes |-> Range(head, head + ChunkLen)]]
        ELSE [self |-> f2.self, ret |-> [type |-> "IndexError", msg |-> "list index out of range"]]

\* the set the list leaks is made from
DumbLeaks(run1, run2) ==
    SetOf(_find_dumb_leaks(Self, run1).ret[1]) \cap SetOf(_find_dumb_leaks(Self, run2).ret[1])

\* head is leaks[0], one of ListHeads(leaks); it is not read when leaks is empty
attempt_dumb_pov(self, run1, run2, head) ==
    LET f1 == _find_dumb_leaks(self, run1)
        f2 == _find_dumb_leaks(f1.self, run2)
        p1 == f1.ret[1]
        stdout == f1.ret[2]
        p2 == f2.ret[1]
        leaks == SetOf(p1) \cap SetOf(p2)
    IN  IF leaks # {}
        THEN
            LET leaked_bytes == Range(head, head + ChunkLen)
            IN  [self |-> f2.self,
                 ret |-> [type |-> "ColorguardNaiveExploit", stdout_len |-> Len(stdout),
                          leaked_bytes |-> leaked_bytes]]
        ELSE [self |-> f2.self, ret |-> None]

\* potential_leaks: for each output offset, the secret offsets with that byte
_find_naive_leaks(self, run) ==
    LET c == _concrete_leak_info(self, run)
        stdout == c.ret[1]
        magic == c.ret[2]
        potential_leaks ==
            [si \in 0..(Len(stdout) - 1) |->
                {i \in 0..(Len(magic) - 1) : magic[i + 1] = stdout[si + 1]}]
    IN  [self |-> c.self, ret |-> <<potential_leaks, stdout>>]

\* sorted(S) of a set of integers
RECURSIVE Sorted(_)
Sorted(S) ==
    IF S = {}
    THEN <<>>
    ELSE LET m == CHOOSE x \in S : \A y \in S : x <= y
         IN  <<m>> \o Sorted(S \ {m})

\* groupby(enumerate(l), lambda (i, x): i - x) over the first n items of l,
\* each group mapped to its items
RECURSIVE ConsecutiveGroups(_, _)
ConsecutiveGroups(l, n) ==
    IF n = 0
    THEN <<>>
    ELSE LET g == ConsecutiveGroups(l, n - 1)
         IN  IF n > 1 /\ (n - 1) - l[n] = (n - 2) - l[n - 1]
             THEN [g EXCEPT ![Len(g)] = Append(@, l[n])]
             ELSE Append(g, <<l[n]>>)

\* leaked: each secret offset that matches in both trials, with the last
\* output offset it matches at (p1 is walked by rising output offset)
Leaked(p1, p2) ==
    LET both == DOMAIN p1 \cap DOMAIN p2
        li(si) == p2[si] \cap p1[si]
        keys == UNION {li(si) : si \in both}
    IN  [lb \in keys |->
            CHOOSE si \in both : lb \in li(si) /\ \A sj \in both : lb \in li(sj) => sj <= si]

\* attempt_naive_pov keeping groups of any length
attempt_naive_pov_any_group(self, run1, run2) ==
    LET f1 == _find_naive_leaks(self, run1)
        f2 == _find_naive_leaks(f1.self, run2)
        leaked == Leaked(f1.ret[1], f2.ret[1])
        order == Sorted(DOMAIN leaked)
        consecutive_groups == ConsecutiveGroups(order, Len(order))
    IN  IF Len(consecutive_groups) > 0
        THEN [self |-> f2.self,
              ret |-> [type |-> "ColorguardNaiveExploit", stdout_len |-> Len(f1.ret[2]),
                       leaked_bytes |-> [k \in DOMAIN order |-> leaked[order[k]]]]]
        ELSE [self |-> f2.self, ret |-> None]

attempt_naive_pov(self, run1, run2) ==
    LET f1 == _find_naive_leaks(self, run1)
        f2 == _find_naive_leaks(f1.self, run2)
        p1 == f1.ret[1]
        stdout == f1.ret[2]
        p2 == f2.ret[1]
        leaked == Leaked(p1, p2)
        order == Sorted(DOMAIN leaked)
        consecutive_groups == ConsecutiveGroups(order, Len(order))
        LongEnough(x) == Len(x) >= MinGroup
        lgroups == SelectSeq(consecutive_groups, LongEnough)
    IN  IF Len(lgroups) > 0
        THEN
            LET leaked_bytes == [k \in DOMAIN order |-> leaked[order[k]]]
            IN  [self |-> f2.self,
                 ret |-> [type |-> "ColorguardNaiveExploit", stdout_len |-> Len(stdout),
                          leaked_bytes |-> leaked_bytes]]
        ELSE [self |-> f2.self, ret |-> None]

-----------------------------------------------------------------------------
(* Symbolic confirmation.                                                  *)

\* self._tracer.run(): the terminal path of a symbolic trace, with the
\* expression read back from its stdout file
TracerRun(self, t) ==
    [type |-> "Path", id |-> self.next_id, tracer |-> self._tracer.id,
     stdout |-> [type |-> "AST", variables |-> t.variables, path |-> self.next_id],
     constraints |-> t.constraints, zen_constraints |-> t.zen_constraints]

\* causes_leak accepting an output expression with any variable at all
causes_leak_any_variable(self, run1, run2, t) ==
    LET n == causes_naive_leak(self, run1, run2)
    IN  IF ~n.ret
        THEN [self |-> n.self, ret |-> FALSE]
        ELSE
            LET path == TracerRun(n.self, t)
                traced ==
                    [Logged(n.self, [ev |-> "Tracer.run", tracer |-> path.tracer, path |-> path.id])
                        EXCEPT !._leak_path = path, !.next_id = @ + 1]
            IN  IF path.stdout.variables # {}
                THEN [self |-> [traced EXCEPT !.leak_ast = path.stdout], ret |-> TRUE]
                ELSE [self |-> traced, ret |-> FALSE]

\* causes_leak tracing whatever the concrete probes gave
causes_leak_trace_first(self, run1, run2, t) ==
    LET n == causes_naive_leak(self, run1, run2)
        path == TracerRun(n.self, t)
        traced ==
            [Logged(n.self, [ev |-> "Tracer.run", tracer |-> path.tracer, path |-> path.id])
                EXCEPT !._leak_path = path, !.next_id = @ + 1]
    IN  IF \E var \in path.stdout.variables : StartsWith(var, CGC_FLAG)
        THEN [self |-> [traced EXCEPT !.leak_ast = path.stdout], ret |-> TRUE]
        ELSE [self |-> traced, ret |-> FALSE]

causes_leak(self, run1, run2, t) ==
    LET n == causes_naive_leak(self, run1, run2)
    IN  IF ~n.ret
        THEN [self |-> n.self, ret |-> FALSE]
        ELSE
            LET path == TracerRun(n.self, t)
                traced ==
                    [Logged(n.self, [ev |-> "Tracer.run", tracer |-> path.tracer, path |-> path.id])
                        EXCEPT !._leak_path = path, !.next_id = @ + 1]
                output == path.stdout
            IN  IF \E var \in output.variables : StartsWith(var, CGC_FLAG)
                THEN [self |-> [traced EXCEPT !.leak_ast = output], ret |-> TRUE]
                ELSE [self |-> traced, ret |-> FALSE]

-----------------------------------------------------------------------------
(* Exploit construction and challenge-response recovery.                   *)

OutputVarName == <<"o", "u", "t", "p", "u", "t", "_", "v", "a", "r">>

\* _challenge_response_exists looking at the first trial alone
_challenge_response_exists_first_trial(trials) == ~trials[1]

\* not any(exploit.test_binary(times=10, enable_randomness=True))
_challenge_response_exists(trials) == ~(\E i \in DOMAIN trials : trials[i])

\* new_cons without the test on the cache keys of the zen plugin
NewCons_without_zen(st) ==
    LET Keep(con) == ~(\A v \in con.variables : StartsWith(v, CGC_FLAG))
    IN  SelectSeq(st.constraints, Keep)

\* the constraints attempt_pov keeps (new_cons)
NewCons(st) ==
    LET zen_cache_keys == {x.cache_key : x \in st.zen_constraints}
        Keep(con) ==
            \/ con.cache_key \in zen_cache_keys
            \/ ~(\A v \in con.variables : StartsWith(v, CGC_FLAG))
    IN  SelectSeq(st.constraints, Keep)

\* what is drawn for a call that makes no call of the collaborators
NoExt == [harvest |-> 0, trials |-> <<>>, retry |-> None]

RECURSIVE attempt_pov(_, _, _)
RECURSIVE BuildPov(_, _, _)
RECURSIVE _prep_challenge_response(_, _)

\* attempt_pov after its assertion: lines 196-240
BuildPov(self, enabled_chall_resp, ext) ==
        LET st == self._leak_path
            unconstrained ==
                Logged(self, [ev |-> "remove_preconstraints",
                              tracer |-> self._tracer.id, path |-> st.id])
            new_cons == NewCons(st)
            simplified == self.leak_ast
            harvester ==
                [type |-> "Harvester", ast |-> simplified,
                 state |-> [type |-> "State", copy_of |-> st.id, constraints |-> new_cons],
                 minimized_ast |-> [type |-> "AST", of |-> simplified, size |-> ext.harvest]]
            output_var ==
                [type |-> "BVS", name |-> OutputVarName, size |-> harvester.minimized_ast.size]
            output_con ==
                [cache_key |-> 0,
                 variables |-> simplified.variables \cup {OutputVarName}]
            st_after == [st EXCEPT !.constraints = Append(new_cons, output_con)]
            exploit ==
                [type |-> "ColorguardExploit", state |-> st_after, harvester |-> harvester,
                 leak |-> simplified, output_var |-> output_var]
            stripped ==
                Logged(unconstrained,
                       [ev |-> "add_constraints", path |-> st.id, had |-> st.constraints,
                        zen_cache_keys |-> {x.cache_key : x \in st.zen_constraints},
                        cons |-> new_cons])
            built ==
                [Logged(Logged(stripped,
                               [ev |-> "Harvester", ast |-> simplified, path |-> st.id]),
                        [ev |-> "ColorguardExploit", leak |-> simplified, path |-> st.id])
                    EXCEPT !._leak_path = st_after]
        IN  IF ~enabled_chall_resp
            THEN
                LET tested ==
                        Logged(built, [ev |-> "test_binary", times |-> Times,
                                       enable_randomness |-> TRUE, result |-> ext.trials])
                IN  IF _challenge_response_exists(ext.trials)
                    THEN _prep_challenge_response(tested, ext.retry)
                    ELSE [self |-> tested, ret |-> exploit]
            ELSE [self |-> built, ret |-> exploit]

\* attempt_pov asserting only after remove_preconstraints
attempt_pov_late_assert(self, enabled_chall_resp, ext) ==
    IF self.leak_ast = None
    THEN [self |-> Logged(self, [ev |-> "remove_preconstraints",
                                 tracer |-> self._tracer.id, path |-> self._leak_path]),
          ret |-> AssertionError("must run causes_leak first or input must cause a leak")]
    ELSE BuildPov(self, enabled_chall_resp, ext)

attempt_pov(self, enabled_chall_resp, ext) ==
    IF self.leak_ast = None
    THEN [self |-> self,
          ret |-> AssertionError("must run causes_leak first or input must cause a leak")]
    ELSE BuildPov(self, enabled_chall_resp, ext)

\* _prep_challenge_response constructing the new tracer without storing it
_prep_challenge_response_old_tracer(self, ext) ==
    LET retraced ==
            [Logged(self, [ev |-> "Tracer", id |-> self.next_id, plugin |-> "ChallRespInfo"])
                EXCEPT !.next_id = @ + 1,
                       !.n_retries = @ + 1]
        c == causes_leak(retraced, ext.run1, ext.run2, ext.trace)
    IN  IF ~c.ret
        THEN [self |-> c.self,
              ret |-> AssertionError("challenge did not cause leak when trying to recover challenge-response")]
        ELSE attempt_pov(c.self, TRUE, [NoExt EXCEPT !.harvest = ext.harvest])

\* _prep_challenge_response without its assertion
_prep_challenge_response_unasserted(self, ext) ==
    LET retraced ==
            [Logged(self, [ev |-> "Tracer", id |-> self.next_id, plugin |-> "ChallRespInfo"])
                EXCEPT !._tracer = NewTracer(self.next_id, "ChallRespInfo", "default"),
                       !.next_id = @ + 1,
                       !.n_retries = @ + 1]
        c == causes_leak(retraced, ext.run1, ext.run2, ext.trace)
    IN  attempt_pov(c.self, TRUE, [NoExt EXCEPT !.harvest = ext.harvest])

\* _prep_challenge_response calling attempt_pov() without enabled_chall_resp:
\* the rebuilt exploit is tested again, fails again and is recovered again
\* (the recursion is cut at the second recovery)
_prep_challenge_response_retested(self, ext) ==
    LET retraced ==
            [Logged(self, [ev |-> "Tracer", id |-> self.next_id, plugin |-> "ChallRespInfo"])
                EXCEPT !._tracer = NewTracer(self.next_id, "ChallRespInfo", "default"),
                       !.next_id = @ + 1,
                       !.n_retries = @ + 1]
        c == causes_leak(retraced, ext.run1, ext.run2, ext.trace)
        again == Cardinality({i \in DOMAIN c.self.log : c.self.log[i].ev = "Tracer"}) < 2
    IN  IF ~c.ret
        THEN [self |-> c.self,
              ret |-> AssertionError("challenge did not cause leak when trying to recover challenge-response")]
        ELSE attempt_pov(c.self, ~again,
                         [harvest |-> ext.harvest, trials |-> [i \in 1..Times |-> FALSE],
                          retry |-> ext])

_prep_challenge_response(self, ext) ==
    LET retraced ==
            [Logged(self, [ev |-> "Tracer", id |-> self.next_id, plugin |-> "ChallRespInfo"])
                EXCEPT !._tracer = NewTracer(self.next_id, "ChallRespInfo", "default"),
                       !.next_id = @ + 1,
                       !.n_retries = @ + 1]
        c == causes_leak(retraced, ext.run1, ext.run2, ext.trace)
    IN  IF ~c.ret
        THEN [self |-> c.self,
              ret |-> AssertionError("challenge did not cause leak when trying to recover challenge-response")]
        ELSE attempt_pov(c.self, TRUE, [NoExt EXCEPT !.harvest = ext.harvest])

-----------------------------------------------------------------------------
(* The state machine.                                                      *)

\* the instance and the bookkeeping after a top-level call that gave r
Assign(name, r) ==
    /\ leak_ast' = r.self.leak_ast
    /\ _leak_path' = r.self._leak_path
    /\ _no_concrete_difference' = r.self._no_concrete_difference
    /\ _tracer' = r.self._tracer
    /\ next_id' = r.self.next_id
    /\ n_retries' = r.self.n_retries
    /\ log' = r.self.log
    /\ op' = name
    /\ ret' = r.ret
    /\ nops' = nops + 1

\* a top-level call on the instance in a process that holds no other object
Commit(name, r) ==
    /\ Assign(name, r)
    /\ UNCHANGED <<trial1, trial2, other, seen, pc, frames>>

Init ==
    /\ Constructed
    /\ nops = 0
    /\ op = "__init__"
    /\ ret = None
    /\ log = <<>>
    /\ trial1 = NoRun
    /\ trial2 = NoRun
    /\ other = None
    /\ seen = {}
    /\ pc = "idle"
    /\ frames = <<>>

CausesDumbLeak ==
    /\ nops < MaxOps
    /\ \E run1 \in SessionRuns, run2 \in SessionRuns :
        LET r == causes_dumb_leak(Self, run1, run2)
        IN  Commit("causes_dumb_leak", [self |-> r.self, ret |-> Bool(r.ret)])

CausesNaiveLeak ==
    /\ nops < MaxOps
    /\ \E run1 \in SessionRuns, run2 \in SessionRuns :
        LET r == causes_naive_leak(Self, run1, run2)
        IN  Commit("causes_naive_leak", [self |-> r.self, ret |-> Bool(r.ret)])

CausesLeak ==
    /\ nops < MaxOps
    /\ \E run1 \in SessionRuns, run2 \in SessionRuns, t \in TraceResults :
        LET r == causes_leak(Self, run1, run2, t)
        IN  Commit("causes_leak", [self |-> r.self, ret |-> Bool(r.ret)])

\* what the recovery draws from the collaborators; nothing is drawn for a
\* call that does not reach _prep_challenge_response
RetryExts(reached) ==
    IF reached
    THEN {[run1 |-> r1, run2 |-> r2, trace |-> t, harvest |-> h] :
            r1 \in SessionRuns, r2 \in SessionRuns, t \in TraceResults, h \in HarvestResults}
    ELSE {None}

AttemptPov ==
    /\ nops < MaxOps
    /\ \E enabled_chall_resp \in BOOLEAN, h \in HarvestResults, trials \in TestResults :
        \E x \in RetryExts(/\ leak_ast # None
                           /\ ~enabled_chall_resp
                           /\ _challenge_response_exists(trials)) :
            Commit(IF enabled_chall_resp THEN "attempt_pov(True)" ELSE "attempt_pov",
                   attempt_pov(Self, enabled_chall_resp,
                               [harvest |-> h, trials |-> trials, retry |-> x]))

Next ==
    \/ CausesDumbLeak
    \/ CausesNaiveLeak
    \/ CausesLeak
    \/ AttemptPov

Spec == Init /\ [][Next]_vars

-----------------------------------------------------------------------------
(* The byte-level detectors, each applied once to a drawn pair of runs.    *)

InitProbe ==
    /\ Constructed
    /\ nops = 0
    /\ op = "__init__"
    /\ ret = None
    /\ log = <<>>
    /\ trial1 \in ProbeRuns
    /\ trial2 \in ProbeRuns
    /\ other = None
    /\ seen = {}
    /\ pc = "idle"
    /\ frames = <<>>

AttemptDumbPov ==
    /\ nops = 0
    /\ LET leaks == DumbLeaks(trial1, trial2)
       IN  \E head \in IF leaks = {} THEN {0} ELSE ListHeads(leaks) :
            Commit("attempt_dumb_pov", attempt_dumb_pov(Self, trial1, trial2, head))

AttemptNaivePov ==
    /\ nops = 0
    /\ Commit("attempt_naive_pov", attempt_naive_pov(Self, trial1, trial2))

NextProbe ==
    \/ AttemptDumbPov
    \/ AttemptNaivePov

SpecProbe == InitProbe /\ [][NextProbe]_vars

-----------------------------------------------------------------------------
(* The three detection stages on short and empty outputs and regions: each *)
(* applied once to a drawn pair of runs of a new instance.                 *)

\* the runs whose output is shorter than a chunk, or one or two chunks of
\* equal bytes
DetectRuns ==
    {r \in ProbeRuns :
        Len(r.stdout) < ChunkLen \/ r.stdout \in {<<0, 0, 0, 0>>, <<0, 0, 0, 0, 0>>}}

InitDetect ==
    /\ Constructed
    /\ nops = 0
    /\ op = "__init__"
    /\ ret = None
    /\ log = <<>>
    /\ trial1 \in DetectRuns
    /\ trial2 \in DetectRuns
    /\ other = None
    /\ seen = {}
    /\ pc = "idle"
    /\ frames = <<>>

CausesLeakProbe ==
    /\ nops = 0
    /\ \E t \in TraceResults :
        LET r == causes_leak(Self, trial1, trial2, t)
        IN  Commit("causes_leak", [self |-> r.self, ret |-> Bool(r.ret)])

NextDetect ==
    \/ AttemptDumbPov
    \/ AttemptNaivePov
    \/ CausesLeakProbe

SpecDetect == InitDetect /\ [][NextDetect]_vars

-----------------------------------------------------------------------------
(* Two objects in one process: the instance above and a second one made   *)
(* by ColorGuard(binary, payload) on the same binary and payload. Object   *)
(* identities come from one counter of the process.                        *)

ValueError == [type |-> "ValueError", msg |-> "binary does not exist or is not executable"]

\* __init__ creating the tracer before it looks at the binary
__init___tracer_first(id, x_ok) ==
    LET made == [ev |-> "Tracer", id |-> id, plugin |-> "ZenPlugin"]
        checked == [ev |-> "os.access", result |-> x_ok]
    IN  IF ~x_ok
        THEN [self |-> None, ret |-> ValueError, log |-> <<made, checked>>, next_id |-> id + 1]
        ELSE [self |-> [leak_ast |-> None, _leak_path |-> None,
                        _no_concrete_difference |-> FALSE,
                        _tracer |-> NewTracer(id, "ZenPlugin", "False"), n_retries |-> 0],
              ret |-> None, log |-> <<made, checked>>, next_id |-> id + 1]

\* __init__ taking a tracer kept on the class, the one the first object made
__init___class_tracer(id, x_ok) ==
    LET checked == [ev |-> "os.access", result |-> x_ok]
    IN  IF ~x_ok
        THEN [self |-> None, ret |-> ValueError, log |-> <<checked>>, next_id |-> id]
        ELSE [self |-> [leak_ast |-> None, _leak_path |-> None,
                        _no_concrete_difference |-> FALSE,
                        _tracer |-> _tracer, n_retries |-> 0],
              ret |-> None, log |-> <<checked>>, next_id |-> id]

\* __init__(binary, payload): x_ok is what os.access(binary, os.X_OK) gives,
\* id the identity the tracer gets
__init__(id, x_ok) ==
    LET checked == [ev |-> "os.access", result |-> x_ok]
    IN  IF ~x_ok
        THEN [self |-> None, ret |-> ValueError, log |-> <<checked>>, next_id |-> id]
        ELSE [self |-> [leak_ast |-> None, _leak_path |-> None,
                        _no_concrete_difference |-> FALSE,
                        _tracer |-> NewTracer(id, "ZenPlugin", "False"), n_retries |-> 0],
              ret |-> None,
              log |-> <<checked, [ev |-> "Tracer", id |-> id, plugin |-> "ZenPlugin"]>>,
              next_id |-> id + 1]

\* the attributes of an object as __init__ leaves them, whatever its tracer
IsNew(o) ==
    /\ o.leak_ast = None
    /\ o._leak_path = None
    /\ ~o._no_concrete_difference
    /\ o._tracer.plugin = "ZenPlugin"

\* the second object as the record the operations work on
Other ==
    [leak_ast |-> other.leak_ast, _leak_path |-> other._leak_path,
     _no_concrete_difference |-> other._no_concrete_difference, _tracer |-> other._tracer,
     next_id |-> next_id, n_retries |-> other.n_retries, log |-> <<>>]

\* the second object and the bookkeeping after a top-level call on it
AssignOther(name, r) ==
    /\ other' = [leak_ast |-> r.self.leak_ast, _leak_path |-> r.self._leak_path,
                 _no_concrete_difference |-> r.self._no_concrete_difference,
                 _tracer |-> r.self._tracer, n_retries |-> r.self.n_retries]
    /\ next_id' = r.self.next_id
    /\ log' = r.self.log
    /\ op' = name
    /\ ret' = r.ret
    /\ nops' = nops + 1
    /\ UNCHANGED <<leak_ast, _leak_path, _no_concrete_difference, _tracer, n_retries,
                   trial1, trial2, pc, frames>>

\* the call (who, run1, run2, t) -> result noted when it is the first one
\* on an object that is still new
Note(who, o, run1, run2, t, result) ==
    IF IsNew(o) /\ ~(\E x \in seen : x.who = who)
    THEN seen \cup {[who |-> who, run1 |-> run1, run2 |-> run2, trace |-> t, ret |-> result]}
    ELSE seen

\* what the collaborators give in the two-object specification
PairRuns == SessionRuns
PairTraces ==
    {t \in TraceResults :
        /\ t.variables \in {{StdinVar, FlagVar}, {DecoyVar}}
        /\ t.zen_constraints = {}}
PairHarvests == {8}
PairTests == {[i \in 1..Times |-> FALSE], [i \in 1..Times |-> i = Times]}
PairRetries(reached) ==
    IF reached
    THEN {[run1 |-> r1, run2 |-> r2, trace |-> t, harvest |-> h] :
            r1 \in PairRuns, r2 \in PairRuns, t \in PairTraces, h \in PairHarvests}
    ELSE {None}

InitPair == Init

FirstCausesLeak ==
    /\ nops < MaxOps
    /\ \E run1 \in PairRuns, run2 \in PairRuns, t \in PairTraces :
        LET r == causes_leak(Self, run1, run2, t)
        IN  /\ Assign("causes_leak", [self |-> r.self, ret |-> Bool(r.ret)])
            /\ seen' = Note("first", Self, run1, run2, t, r.ret)
            /\ UNCHANGED <<trial1, trial2, other, pc, frames>>

FirstAttemptPov ==
    /\ nops < MaxOps
    /\ \E h \in PairHarvests, trials \in PairTests :
        \E x \in PairRetries(leak_ast # None /\ _challenge_response_exists(trials)) :
            /\ Assign("attempt_pov",
                      attempt_pov(Self, FALSE, [harvest |-> h, trials |-> trials, retry |-> x]))
            /\ UNCHANGED <<trial1, trial2, other, seen, pc, frames>>

\* other = ColorGuard(binary, payload)
OtherInit ==
    /\ nops < MaxOps
    /\ other = None
    /\ \E x_ok \in BOOLEAN :
        LET r == __init__(next_id, x_ok)
        IN  /\ other' = r.self
            /\ next_id' = r.next_id
            /\ log' = r.log
            /\ op' = "other.__init__"
            /\ ret' = r.ret
            /\ nops' = nops + 1
            /\ UNCHANGED <<leak_ast, _leak_path, _no_concrete_difference, _tracer, n_retries,
                           trial1, trial2, seen, pc, frames>>

OtherCausesLeak ==
    /\ nops < MaxOps
    /\ other # None
    /\ \E run1 \in PairRuns, run2 \in PairRuns, t \in PairTraces :
        LET r == causes_leak(Other, run1, run2, t)
        IN  /\ AssignOther("other.causes_leak", [self |-> r.self, ret |-> Bool(r.ret)])
            /\ seen' = Note("other", Other, run1, run2, t, r.ret)

OtherAttemptPov ==
    /\ nops < MaxOps
    /\ other # None
    /\ \E h \in PairHarvests, trials \in PairTests :
        \E x \in PairRetries(other.leak_ast # None /\ _challenge_response_exists(trials)) :
            /\ AssignOther("other.attempt_pov",
                           attempt_pov(Other, FALSE,
                                       [harvest |-> h, trials |-> trials, retry |-> x]))
            /\ UNCHANGED seen

NextPair ==
    \/ FirstCausesLeak
    \/ FirstAttemptPov
    \/ OtherInit
    \/ OtherCausesLeak
    \/ OtherAttemptPov

SpecPair == InitPair /\ [][NextPair]_vars

-----------------------------------------------------------------------------
(* A call of attempt_pov statement by statement: the frames of attempt_pov *)
(* on the stack and the position of the innermost one. The collaborators   *)
(* return; what they return is drawn when the statement runs.              *)

\* frames of attempt_pov the stack may hold in the model
MaxDepth == 3

\* line 259 calling self.attempt_pov() with the default argument
RecoveryArgument_default == FALSE

\* line 259: self.attempt_pov(enabled_chall_resp=True)
RecoveryArgument == TRUE

\* the instance with the collaborator calls of the call in progress
Here == [Self EXCEPT !.log = log]

Store(self) ==
    /\ leak_ast' = self.leak_ast
    /\ _leak_path' = self._leak_path
    /\ _no_concrete_difference' = self._no_concrete_difference
    /\ _tracer' = self._tracer
    /\ next_id' = self.next_id
    /\ n_retries' = self.n_retries
    /\ log' = self.log

\* an exception leaving every frame of the call
Raise(e) ==
    /\ ret' = e
    /\ pc' = "idle"
    /\ frames' = <<>>

IdleCausesLeak ==
    /\ pc = "idle"
    /\ nops < MaxOps
    /\ \E run1 \in PairRuns, run2 \in PairRuns, t \in PairTraces :
        LET r == causes_leak(Self, run1, run2, t)
        IN  Commit("causes_leak", [self |-> r.self, ret |-> Bool(r.ret)])

\* the caller calls attempt_pov(enabled_chall_resp)
EnterAttemptPov ==
    /\ pc = "idle"
    /\ nops < MaxOps
    /\ \E enabled_chall_resp \in BOOLEAN :
        /\ frames' = <<enabled_chall_resp>>
        /\ op' = IF enabled_chall_resp THEN "attempt_pov(True)" ELSE "attempt_pov"
    /\ pc' = "assert"
    /\ log' = <<>>
    /\ ret' = None
    /\ nops' = nops + 1
    /\ UNCHANGED <<leak_ast, _leak_path, _no_concrete_difference, _tracer, next_id,
                   n_retries, trial1, trial2, other, seen>>

\* line 194
StepAssert ==
    /\ pc = "assert"
    /\ IF leak_ast = None
       THEN Raise(AssertionError("must run causes_leak first or input must cause a leak"))
       ELSE pc' = "build" /\ UNCHANGED <<ret, frames>>
    /\ UNCHANGED <<leak_ast, _leak_path, _no_concrete_difference, _tracer, next_id,
                   n_retries, nops, op, log, trial1, trial2, other, seen>>

\* lines 196-231: the exploit of this frame
StepBuild ==
    /\ pc = "build"
    /\ \E h \in PairHarvests :
        LET r == BuildPov(Here, TRUE, [NoExt EXCEPT !.harvest = h])
        IN  Store(r.self) /\ ret' = r.ret
    /\ pc' = IF frames[Len(frames)] THEN "return" ELSE "test"
    /\ UNCHANGED <<nops, op, trial1, trial2, other, seen, frames>>

\* lines 234-236
StepSelfTest ==
    /\ pc = "test"
    /\ \E trials \in PairTests :
        /\ log' = Append(log, [ev |-> "test_binary", times |-> Times,
                               enable_randomness |-> TRUE, result |-> trials])
        /\ pc' = IF _challenge_response_exists(trials) THEN "prep" ELSE "return"
    /\ UNCHANGED <<leak_ast, _leak_path, _no_concrete_difference, _tracer, next_id,
                   n_retries, nops, op, ret, trial1, trial2, other, seen, frames>>

\* lines 238, 249-259: _prep_challenge_response up to its call of attempt_pov
StepPrep ==
    /\ pc = "prep"
    /\ Len(frames) < MaxDepth
    /\ \E run1 \in PairRuns, run2 \in PairRuns, t \in PairTraces :
        LET retraced ==
                [Logged(Here, [ev |-> "Tracer", id |-> next_id, plugin |-> "ChallRespInfo"])
                    EXCEPT !._tracer = NewTracer(next_id, "ChallRespInfo", "default"),
                           !.next_id = @ + 1,
                           !.n_retries = @ + 1]
            c == causes_leak(retraced, run1, run2, t)
        IN  /\ Store(c.self)
            /\ IF ~c.ret
               THEN Raise(AssertionError("challenge did not cause leak when trying to recover challenge-response"))
               ELSE /\ frames' = Append(frames, RecoveryArgument)
                    /\ pc' = "assert"
                    /\ ret' = None
    /\ UNCHANGED <<nops, op, trial1, trial2, other, seen>>

\* lines 240 and 259: the innermost frame returns its exploit to its caller
StepReturn ==
    /\ pc = "return"
    /\ frames' = SubSeq(frames, 1, Len(frames) - 1)
    /\ pc' = IF Len(frames) = 1 THEN "idle" ELSE "return"
    /\ UNCHANGED <<leak_ast, _leak_path, _no_concrete_difference, _tracer, next_id,
                   n_retries, nops, op, ret, log, trial1, trial2, other, seen>>

Running ==
    \/ StepAssert
    \/ StepBuild
    \/ StepSelfTest
    \/ StepPrep
    \/ StepReturn

NextSteps ==
    \/ IdleCausesLeak
    \/ EnterAttemptPov
    \/ Running

\* a call in progress goes on: the program is sequential and every
\* collaborator returns
SpecSteps == Init /\ [][NextSteps]_vars /\ WF_vars(Running)

-----------------------------------------------------------------------------
(* Properties of the byte-level detectors.                                 *)

Returned == ret.type = "ColorguardNaiveExploit"
\* 0 is the first offset of a string
ByteAt(s, i) == s[i + 1]
\* the secret offsets of a run whose byte is the output byte at offset si
SecretMatches(run, si) ==
    {i \in 0..(Len(run.magic) - 1) : ByteAt(run.magic, i) = ByteAt(run.stdout, si)}
\* the output offsets with a secret offset that matches in both trials
MatchedOutputOffsets ==
    {si \in 0..(Len(trial1.stdout) - 1) :
        /\ si < Len(trial2.stdout)
        /\ SecretMatches(trial1, si) \cap SecretMatches(trial2, si) # {}}
\* the secret offsets that match in both trials at some output offset
MatchedSecretOffsets ==
    {i \in 0..(Len(trial1.magic) - 1) :
        \E si \in 0..(Len(trial1.stdout) - 1) :
            /\ si < Len(trial2.stdout)
            /\ i \in SecretMatches(trial1, si) \cap SecretMatches(trial2, si)}
\* S holds MinGroup consecutive integers
HasGroup(S) == \E a \in S : \A k \in 0..(MinGroup - 1) : a + k \in S

\* C3 as stated: attempt_naive_pov returns an exploit only if at least 4
\* consecutive output offsets each match a secret offset in both trials.
C3_GroupOfOutputOffsets ==
    (op = "attempt_naive_pov" /\ Returned) => HasGroup(MatchedOutputOffsets)

\* C3 as amended: attempt_naive_pov returns an exploit only if at least 4
\* consecutive secret offsets each match, in both trials, the output byte at
\* some output offset; when every group of such secret offsets is shorter
\* than 4 it returns None. (It returns an exploit whenever there is such a
\* group.)
C3_GroupOfSecretOffsets ==
    op = "attempt_naive_pov" =>
        /\ Returned <=> HasGroup(MatchedSecretOffsets)
        /\ ~Returned => ret = None

\* no exploit although three consecutive secret offsets match, and four
\* consecutive output offsets do
C3_Witness ==
    /\ op = "attempt_naive_pov"
    /\ ret = None
    /\ {0, 1, 2} \subseteq MatchedSecretOffsets
    /\ HasGroup(MatchedOutputOffsets)

\* the output offsets of a run whose 4-byte chunk occurs in its secret region
ChunkMatches(run) ==
    {o \in 0..(Len(run.stdout) - ChunkLen) :
        \E j \in 0..(Len(run.magic) - ChunkLen) :
            \A k \in 1..ChunkLen : run.stdout[o + k] = run.magic[j + k]}
ChunkAt(o) == <<o, o + 1, o + 2, o + 3>>
Lowest(S) == CHOOSE x \in S : \A y \in S : x <= y

\* C4 as stated: attempt_dumb_pov builds the exploit for [o, o+4), o the
\* lowest offset matching in both trials, and returns None when there is none.
C4_LowestOffset ==
    op = "attempt_dumb_pov" =>
        LET both == ChunkMatches(trial1) \cap ChunkMatches(trial2)
        IN  IF both # {}
            THEN Returned /\ ret.leaked_bytes = ChunkAt(Lowest(both))
            ELSE ret = None

\* C4 as amended: attempt_dumb_pov builds the exploit for [o, o+4), o an
\* offset matching in both trials (the first in the iteration order of the
\* set, which need not be the lowest), with the length of the first trial's
\* output, and returns None when no offset matches in both.
C4_SomeCommonOffset ==
    op = "attempt_dumb_pov" =>
        LET both == ChunkMatches(trial1) \cap ChunkMatches(trial2)
        IN  IF both # {}
            THEN /\ Returned
                 /\ \E o \in both : ret.leaked_bytes = ChunkAt(o)
                 /\ ret.stdout_len = Len(trial1.stdout)
            ELSE ret = None

\* an exploit for an offset that is not the lowest common one
C4_Witness ==
    /\ op = "attempt_dumb_pov"
    /\ Returned
    /\ ret.leaked_bytes[1] # Lowest(ChunkMatches(trial1) \cap ChunkMatches(trial2))

\* C5: the offset attempt_dumb_pov uses matches in both trials: in each run
\* the 4 output bytes at [o, o+4) are all there and occur as 4 contiguous
\* bytes of the secret region of that same run.
C5_OffsetInBothTrials ==
    (op = "attempt_dumb_pov" /\ Returned) =>
        LET o == ret.leaked_bytes[1]
        IN  \A run \in {trial1, trial2} :
                /\ o + ChunkLen <= Len(run.stdout)
                /\ \E j \in 0..(Len(run.magic) - ChunkLen) :
                        \A k \in 1..ChunkLen : run.stdout[o + k] = run.magic[j + k]

\* an exploit at the one common offset, the first trial matching at another
\* offset as well and the secret regions differing
C5_Witness ==
    /\ op = "attempt_dumb_pov"
    /\ Returned
    /\ ret.leaked_bytes[1] = 1
    /\ ChunkMatches(trial1) = {0, 1}
    /\ ChunkMatches(trial2) = {1}
    /\ trial1.magic # trial2.magic

-----------------------------------------------------------------------------
(* Properties of the session.                                              *)

IsAttemptPov == op \in {"attempt_pov", "attempt_pov(True)"}
Events(kind) == {i \in DOMAIN log : log[i].ev = kind}
HasFlagVar(ast) == \E v \in ast.variables : StartsWith(v, CGC_FLAG)
MustRunFirst == AssertionError("must run causes_leak first or input must cause a leak")
DidNotCauseLeak ==
    AssertionError("challenge did not cause leak when trying to recover challenge-response")

\* C1: causes_dumb_leak and causes_naive_leak make exactly two unseeded
\* concrete runs, return true iff the two stdout strings differ, and leave
\* _no_concrete_difference true iff the two strings are identical.
C1_DumbLeakIffOutputsDiffer ==
    op \in {"causes_dumb_leak", "causes_naive_leak"} =>
        /\ Len(log) = 2
        /\ \A i \in 1..2 : log[i].ev = "Runner" /\ ~log[i].seeded
        /\ ret = Bool(log[1].stdout # log[2].stdout)
        /\ _no_concrete_difference = (log[1].stdout = log[2].stdout)

\* a call of causes_naive_leak whose two runs gave the same bytes
C1_Witness ==
    /\ op = "causes_naive_leak"
    /\ log[1].stdout = log[2].stdout
    /\ ret = Bool(FALSE)
    /\ _no_concrete_difference

\* C2: leak_ast is None or an expression with at least one variable whose
\* name starts with "cgc-flag", and causes_leak returns true only when the
\* expression it has just traced and stored has such a variable.
C2_LeakAstHasFlagVar ==
    /\ leak_ast # None => HasFlagVar(leak_ast)
    /\ (op = "causes_leak" /\ ret = Bool(TRUE)) =>
        /\ Events("Tracer.run") # {}
        /\ leak_ast = _leak_path.stdout
        /\ HasFlagVar(_leak_path.stdout)

\* causes_leak has stored an expression that also has a variable of another kind
C2_Witness ==
    /\ op = "causes_leak"
    /\ ret = Bool(TRUE)
    /\ leak_ast # None
    /\ leak_ast.variables = {StdinVar, FlagVar}

\* C6 as stated: _prep_challenge_response runs at most once on one instance.
C6_RetryOncePerInstance == n_retries <= 1

\* C6 as amended: one top-level call of attempt_pov makes at most one
\* challenge-response retry: at most one new tracer, one self-test batch and
\* two harvests, the second harvest only after the retry; a call with
\* enabled_chall_resp set makes none.
C6_RetryOncePerCall ==
    IsAttemptPov =>
        /\ Cardinality(Events("Tracer")) <= 1
        /\ Cardinality(Events("test_binary")) <= 1
        /\ Cardinality(Events("Harvester")) <= 1 + Cardinality(Events("Tracer"))
        /\ \A i \in Events("Tracer") : \E j \in Events("test_binary") : j < i
        /\ op = "attempt_pov(True)" => Events("Tracer") = {} /\ Events("test_binary") = {}

\* a call of attempt_pov that retried and returned the rebuilt exploit
C6_Witness ==
    /\ op = "attempt_pov"
    /\ Cardinality(Events("Tracer")) = 1
    /\ Cardinality(Events("Harvester")) = 2
    /\ ret.type = "ColorguardExploit"

\* C7: when the causes_leak re-run by _prep_challenge_response returns false
\* (the two fresh runs gave the same bytes, or the new trace shows no flag
\* variable), attempt_pov raises the assertion error of the recovery, and no
\* exploit is built after the re-trace.
C7_FailedRetraceAborts ==
    IsAttemptPov =>
        \A i \in Events("Tracer") :
            LET same == log[i + 1].stdout = log[i + 2].stdout
                unconfirmed == ~same /\ ~HasFlagVar(_leak_path.stdout)
            IN  (same \/ unconfirmed) =>
                    /\ ret = DidNotCauseLeak
                    /\ \A j \in Events("ColorguardExploit") : j < i

\* a recovery whose fresh runs gave the same bytes
C7_Witness ==
    /\ op = "attempt_pov"
    /\ \E i \in Events("Tracer") : log[i + 1].stdout = log[i + 2].stdout
    /\ ret = DidNotCauseLeak
    /\ leak_ast # None

\* C8: attempt_pov on an instance whose leak_ast is None raises the assertion
\* error before any collaborator is called, and changes no attribute.
C8_NoLeakRejected ==
    [][(leak_ast = None /\ nops' = nops + 1
            /\ op' \in {"attempt_pov", "attempt_pov(True)"}) =>
        /\ ret' = MustRunFirst
        /\ log' = <<>>
        /\ UNCHANGED <<leak_ast, _leak_path, _no_concrete_difference, _tracer,
                       next_id, n_retries>>]_vars

\* attempt_pov rejected on an instance that has traced a path but no leak
C8_Witness ==
    /\ op = "attempt_pov"
    /\ ret = MustRunFirst
    /\ leak_ast = None
    /\ _leak_path # None
    /\ log = <<>>

\* C9: in every call a symbolic trace directly follows two concrete runs of
\* the same call whose outputs differ; causes_leak on identical outputs
\* returns false without tracing, keeps leak_ast and _leak_path and leaves
\* _no_concrete_difference true; a harvest or an exploit is only built from
\* a traced expression with a flag variable, the exploit right after the harvest.
TraceFollowsDifference ==
    \A i \in Events("Tracer.run") :
        /\ i >= 3
        /\ log[i - 1].ev = "Runner"
        /\ log[i - 2].ev = "Runner"
        /\ log[i - 1].stdout # log[i - 2].stdout
BuildFollowsConfirmation ==
    /\ \A i \in Events("Harvester") :
        /\ log[i].ast # None
        /\ HasFlagVar(log[i].ast)
        /\ log[i].ast.path < next_id
    /\ \A i \in Events("ColorguardExploit") :
        /\ i >= 2
        /\ log[i - 1].ev = "Harvester"
        /\ log[i].leak = log[i - 1].ast
C9_StageOrdering ==
    [][/\ TraceFollowsDifference'
       /\ BuildFollowsConfirmation'
       /\ (nops' = nops + 1 /\ op' = "causes_leak" /\ log'[1].stdout = log'[2].stdout) =>
            /\ ret' = Bool(FALSE)
            /\ Len(log') = 2
            /\ _no_concrete_difference'
            /\ UNCHANGED <<leak_ast, _leak_path>>]_vars

\* causes_leak filtered by identical outputs on an instance that holds a path
C9_Witness ==
    /\ op = "causes_leak"
    /\ log[1].stdout = log[2].stdout
    /\ Len(log) = 2
    /\ _no_concrete_difference
    /\ _leak_path # None

\* C10: after causes_leak has returned false, leak_ast is None.
C10_FalseLeavesNoLeakAst ==
    (op = "causes_leak" /\ ret = Bool(FALSE)) => leak_ast = None

\* C11: a recovery constructs a new tracer and stores it in _tracer before
\* causes_leak is re-run; every trace and every remove_preconstraints after
\* that is made on the new tracer, none on an older one; the harvest and the
\* exploit after the re-trace, and the exploit returned, take the expression
\* and the state of the path the new tracer has traced.
C11_RecoveryUsesNewSession ==
    IsAttemptPov =>
        \A i \in Events("Tracer") :
            /\ _tracer = NewTracer(log[i].id, "ChallRespInfo", "default")
            /\ \A j \in 1..(i - 1) :
                    log[j].ev \in {"Tracer.run", "remove_preconstraints"} =>
                        log[j].tracer < log[i].id
            /\ \A j \in (i + 1)..Len(log) :
                    /\ log[j].ev \in {"Tracer.run", "remove_preconstraints"} =>
                            log[j].tracer = log[i].id
                    /\ log[j].ev \in {"remove_preconstraints", "Harvester", "ColorguardExploit"} =>
                            /\ log[i + 3].ev = "Tracer.run"
                            /\ log[j].path = log[i + 3].path
                    /\ log[j].ev = "Harvester" => log[j].ast.path = log[i + 3].path
            /\ ret.type = "ColorguardExploit" =>
                    /\ log[i + 3].ev = "Tracer.run"
                    /\ log[i + 3].path > log[i].id
                    /\ ret.state.id = log[i + 3].path
                    /\ ret.state.tracer = log[i].id
                    /\ ret.leak.path = log[i + 3].path
                    /\ ret.leak = leak_ast
                    /\ ret.state = _leak_path

\* a recovery that returned an exploit for another expression than the one
\* the first exploit was built from
C11_Witness ==
    /\ op = "attempt_pov"
    /\ ret.type = "ColorguardExploit"
    /\ \E i \in Events("Tracer") : \E j \in Events("Harvester") :
            /\ j < i
            /\ log[j].ast.variables # ret.leak.variables
            /\ log[j].ast.path < ret.leak.path

\* C12: each detection stage ends with a value, whatever the two runs gave:
\* attempt_dumb_pov and attempt_naive_pov return an exploit or None, and None
\* when no offset matches in both trials (no group of 4 for the naive one);
\* causes_leak returns a boolean, false when the outputs are identical or
\* the traced expression has no flag variable.
C12_NegativeOutcomesAreValues ==
    /\ op = "attempt_dumb_pov" =>
        /\ ret.type \in {"None", "ColorguardNaiveExploit"}
        /\ ChunkMatches(trial1) \cap ChunkMatches(trial2) = {} => ret = None
    /\ op = "attempt_naive_pov" =>
        /\ ret.type \in {"None", "ColorguardNaiveExploit"}
        /\ ~HasGroup(MatchedSecretOffsets) => ret = None
    /\ op = "causes_leak" =>
        /\ ret.type = "bool"
        /\ trial1.stdout = trial2.stdout => ret = Bool(FALSE) /\ _leak_path = None
        /\ (_leak_path # None /\ ~HasFlagVar(_leak_path.stdout)) =>
                ret = Bool(FALSE) /\ leak_ast = None

\* attempt_dumb_pov returned None on an empty output and an empty secret
\* region in one trial and an output shorter than a chunk in the other
C12_Witness ==
    /\ op = "attempt_dumb_pov"
    /\ ret = None
    /\ trial1.stdout = <<>>
    /\ trial1.magic = <<>>
    /\ Len(trial2.stdout) = 3
    /\ Len(log) = 2

-----------------------------------------------------------------------------
(* Properties of two objects in one process.                               *)

\* the identities of the tracer sessions, paths and expressions an object holds
Held(o) ==
    {o._tracer.id}
        \cup (IF o._leak_path = None THEN {} ELSE {o._leak_path.id, o._leak_path.tracer})
        \cup (IF o.leak_ast = None THEN {} ELSE {o.leak_ast.path})
OnFirst == {"causes_leak", "attempt_pov"}
OnOther == {"other.__init__", "other.causes_leak", "other.attempt_pov"}

\* C13: two objects constructed on the same binary and payload are
\* independent: a call on one leaves leak_ast, _leak_path,
\* _no_concrete_difference and the tracer of the other as they were, the two
\* never hold the same tracer session, path or expression, and the first
\* causes_leak on a new object returns what the first causes_leak returned on
\* the other new object when the probes and the trace gave the same.
C13_InstancesIndependent ==
    [][/\ op' \in OnFirst => other' = other
       /\ op' \in OnOther =>
            UNCHANGED <<leak_ast, _leak_path, _no_concrete_difference, _tracer, n_retries>>
       /\ other' # None => Held(Self)' \cap Held(other') = {}
       /\ \A x \in seen', y \in seen' :
            (x.run1 = y.run1 /\ x.run2 = y.run2 /\ x.trace = y.trace) => x.ret = y.ret
      ]_vars
\* the first object has confirmed a leak and recovered with a new tracer,
\* then a second object is constructed and confirms the same leak
C13_Witness ==
    /\ op = "other.causes_leak"
    /\ ret = Bool(TRUE)
    /\ n_retries = 1
    /\ _tracer.plugin = "ChallRespInfo"
    /\ other.leak_ast # None
    /\ \E x \in seen, y \in seen :
        /\ x.who = "first" /\ y.who = "other"
        /\ x.run1 = y.run1 /\ x.run2 = y.run2 /\ x.trace = y.trace /\ x.ret

\* C14: constructing a ColorGuard on a binary that is missing or not
\* executable raises ValueError at once: os.access is asked once, no tracer
\* session has been created, nothing is tried again, and no object exists
\* afterwards; on an executable binary the construction succeeds.
C14_BadBinaryRejected ==
    [][op' = "other.__init__" =>
        /\ log'[1] \in {[ev |-> "os.access", result |-> b] : b \in BOOLEAN}
        /\ ~log'[1].result =>
            /\ ret' = ValueError
            /\ other' = None
            /\ log' = <<[ev |-> "os.access", result |-> FALSE]>>
            /\ next_id' = next_id
        /\ log'[1].result => ret' = None /\ other' # None
      ]_vars
\* the construction fails in a process whose first object has confirmed a leak
C14_Witness ==
    /\ op = "other.__init__"
    /\ ret = ValueError
    /\ other = None
    /\ leak_ast # None

-----------------------------------------------------------------------------
(* Properties of the exploit construction.                                 *)

\* C15: attempt_pov called without the retry flag, on an instance that has a
\* leak expression, runs one self-test batch of 10 randomized trials on the
\* exploit it has just built; it goes into the challenge-response recovery
\* exactly when all 10 trials fail, and when a trial passes it returns that
\* exploit and keeps the tracer, leak_ast and the path object it had.
C15_OneSelfTestBatch ==
    [][(op' = "attempt_pov" /\ ret' # MustRunFirst) =>
        /\ Cardinality(Events("test_binary")') = 1
        /\ \A i \in Events("test_binary")' :
            LET result == log'[i].result
                passed == \E k \in DOMAIN result : result[k]
            IN  /\ log'[i].times = Times
                /\ log'[i].enable_randomness
                /\ Len(result) = Times
                /\ log'[i - 1].ev = "ColorguardExploit"
                /\ \A j \in Events("ColorguardExploit")' : j >= i - 1
                /\ (Events("Tracer")' # {}) <=> ~passed
                /\ (n_retries' = n_retries + 1) <=> ~passed
                /\ passed =>
                    /\ i = Len(log')
                    /\ ret'.type = "ColorguardExploit"
                    /\ ret'.leak = log'[i - 1].leak
                    /\ ret'.state = _leak_path'
                    /\ _tracer' = _tracer
                    /\ leak_ast' = leak_ast
                    /\ _leak_path'.id = _leak_path.id
                    /\ n_retries' = n_retries
      ]_vars
\* a self-test in which only the last of the 10 trials passed
C15_Witness ==
    /\ op = "attempt_pov"
    /\ ret.type = "ColorguardExploit"
    /\ Events("Tracer") = {}
    /\ \E i \in Events("test_binary") :
        /\ log[i].result[Times]
        /\ \A k \in 1..(Times - 1) : ~log[i].result[k]

\* C16: the constraints attempt_pov installs after releasing the solver are
\* the constraints the path had, in their order, less the dropped ones; a
\* constraint is dropped exactly when its cache key is not one of the zen
\* plugin and every variable it has starts with "cgc-flag", which holds of a
\* constraint without variables. Nothing else is added or removed.
C16_OnlyFlagConstraintsStripped ==
    IsAttemptPov =>
        \A i \in Events("add_constraints") :
            LET had == log[i].had
                cons == log[i].cons
                IsZen(con) == con.cache_key \in log[i].zen_cache_keys
                HasOtherVariable(con) ==
                    \E v \in con.variables : ~StartsWith(v, CGC_FLAG)
                Stays(con) == IsZen(con) \/ HasOtherVariable(con)
            IN  /\ cons = SelectSeq(had, Stays)
                /\ \A k \in DOMAIN had :
                    (\A j \in DOMAIN cons : cons[j] # had[k])
                        <=> (~IsZen(had[k])
                             /\ \A v \in had[k].variables : StartsWith(v, CGC_FLAG))
                /\ \A j \in DOMAIN cons : \E k \in DOMAIN had : cons[j] = had[k]
                /\ i >= 2 /\ log[i - 1].ev = "remove_preconstraints"
                /\ log[i - 1].path = log[i].path
\* a path whose only flag constraint is a zen constraint and is kept, and a
\* path whose flag constraint and ground constraint are dropped
C16_Witness ==
    /\ op = "attempt_pov"
    /\ ret.type = "ColorguardExploit"
    /\ \E i \in Events("add_constraints"), j \in Events("add_constraints") :
        /\ i < j
        /\ log[i].had = <<ConStdin, ConFlag>> /\ log[i].cons = <<ConStdin, ConFlag>>
        /\ log[j].had = <<ConFlag, ConMixed, ConGround>> /\ log[j].cons = <<ConMixed>>

\* the build that made the exploit a call returned: its add_constraints(*new_cons)
LastBuild == CHOOSE i \in Events("add_constraints") : \A j \in Events("add_constraints") : j <= i
\* output_var has the bit width of the minimized expression, and the state of
\* the exploit is the stripped state with minimized_ast == output_var added
\* last, after the Harvester took its copy
OutputVarConstrained ==
    LET cons == log[LastBuild].cons
        n == Len(ret.state.constraints)
    IN  /\ ret.output_var.type = "BVS"
        /\ ret.output_var.size = ret.harvester.minimized_ast.size
        /\ ret.harvester.minimized_ast.of = ret.leak
        /\ ret.harvester.state.constraints = cons
        /\ n = Len(cons) + 1
        /\ SubSeq(ret.state.constraints, 1, n - 1) = cons
        /\ ret.state.constraints[n].variables =
                ret.leak.variables \cup {ret.output_var.name}
        /\ ret.state.id = log[LastBuild].path
\* output_var occurs nowhere in the state or the expression before the build
OutputVarFresh ==
    /\ \A k \in DOMAIN log[LastBuild].had :
            ret.output_var.name \notin log[LastBuild].had[k].variables
    /\ ret.output_var.name \notin ret.leak.variables

\* C17: every ColorguardExploit returned by attempt_pov is built with a fresh
\* output placeholder variable of the bit width of the harvester's minimized
\* expression, and the state handed to the exploit holds the constraint
\* minimized_ast == output_var, added after the stripping and before the
\* exploit is constructed.
C17_FreshOutputVar ==
    (IsAttemptPov /\ ret.type = "ColorguardExploit") =>
        OutputVarConstrained /\ OutputVarFresh

-----------------------------------------------------------------------------
(* Properties of a call of attempt_pov in progress.                        *)

\* what a call has used so far
WithinBudget ==
    /\ Len(frames) <= 2
    /\ Cardinality(Events("Harvester")) <= 2
    /\ Cardinality(Events("ColorguardExploit")) <= 2
    /\ Cardinality(Events("test_binary")) <= 1
    /\ Cardinality(Events("Tracer")) <= 1
    /\ Cardinality(Events("Tracer.run")) <= 1
\* how a finished call ended
Finished ==
    \/ ret.type = "ColorguardExploit"
    \/ ret = DidNotCauseLeak
    \/ ret = MustRunFirst /\ log = <<>>

\* C18: when every collaborator returns, a call of attempt_pov finishes, with
\* an exploit or with the assertion error of the recovery (or that of line
\* 194 when no leak is stored), after at most two harvest and build rounds,
\* one self-test batch and one re-trace, and with never more than two frames
\* of attempt_pov on the stack.
C18_AttemptPovFinishes ==
    /\ [](IsAttemptPov => WithinBudget)
    /\ []((IsAttemptPov /\ pc = "idle") => Finished)
    /\ (pc # "idle") ~> (pc = "idle")
\* a call in its second frame, building the exploit after the re-trace
C18_Witness ==
    /\ pc = "return"
    /\ Len(frames) = 2
    /\ Cardinality(Events("Harvester")) = 2
    /\ Cardinality(Events("Tracer")) = 1
    /\ ret.type = "ColorguardExploit"

-----------------------------------------------------------------------------
(* Properties of the stored leak.                                          *)

\* C19: whenever leak_ast is not None it is the stdout expression of the
\* path stored in _leak_path, so an exploit attempt_pov returns pairs a leak
\* expression with the state of the trace it was read from.
C19_LeakAstOfStoredPath ==
    /\ leak_ast # None =>
        /\ _leak_path # None
        /\ leak_ast = _leak_path.stdout
        /\ leak_ast.path = _leak_path.id
    /\ (IsAttemptPov /\ ret.type = "ColorguardExploit") => ret.leak.path = ret.state.id

-----------------------------------------------------------------------------
(* Properties of the offsets handed to ColorguardNaiveExploit.             *)

\* C20: every leaked-byte offset attempt_dumb_pov or attempt_naive_pov hands
\* to ColorguardNaiveExploit is an index into the stdout of the first trial,
\* whose length is handed over with it: 0 <= offset < len(stdout), whatever
\* the two runs gave and whether or not their outputs have the same length.
C20_OffsetsWithinOutput ==
    (op \in {"attempt_dumb_pov", "attempt_naive_pov"} /\ Returned) =>
        /\ ret.stdout_len = Len(trial1.stdout)
        /\ ret.leaked_bytes # <<>>
        /\ \A k \in DOMAIN ret.leaked_bytes :
            /\ 0 <= ret.leaked_bytes[k]
            /\ ret.leaked_bytes[k] < ret.stdout_len
\* an exploit whose last leaked byte is the last byte of the first trial's
\* output, the second trial's output being longer
C20_Witness ==
    /\ op = "attempt_dumb_pov"
    /\ Returned
    /\ Len(trial1.stdout) < Len(trial2.stdout)
    /\ ret.leaked_bytes[ChunkLen] = Len(trial1.stdout) - 1


====
